---- MODULE Spec2Model ----
(***************************************************************************)
(* Model of the prompt-chaining calendar pipeline of ai-cookbook:          *)
(*   patterns/workflows/2-workflow-patterns/1-prompt-chaining.py   (basic) *)
(*   patterns/workflows/2-workflow-patterns/1a-prompt-chaining-full-       *)
(*   workflow.py together with calendar_tools.py                   (full)  *)
(* One behaviour is one invocation of process_calendar_request.  The LLM   *)
(* provider, the OAuth connection and the calendar backend are the         *)
(* environment: their answers are chosen nondeterministically.             *)
(* confidence_score is kept in thousandths (0.7 is 700).                   *)
(***************************************************************************)
EXTENDS Integers, Sequences, FiniteSets, TLC

VARIABLES variant, pc, user_input, initial_extraction, event_details,
          service, event, meeting_created, confirmation, outcome,
          calls, parseArgs, createArgs, confirmArgs, insertBodies,
          calendar, raisedBy, insertResult

\* the script around process_calendar_request (__main__ of the full workflow)
VARIABLES mainPc, printed, heard

pipeVars == <<variant, pc, user_input, initial_extraction, event_details,
              service, event, meeting_created, confirmation, outcome,
              calls, parseArgs, createArgs, confirmArgs, insertBodies,
              calendar, raisedBy, insertResult>>

mainVars == <<mainPc, printed, heard>>

\* the tool-calling scripts 3-tools.py and 4-retrieval.py
VARIABLES script, tpc, messages, completion, tidx, executed, sent, texc

toolVars == <<script, tpc, messages, completion, tidx, executed, sent, texc>>

\* ai_manager.call_ai_function and its caller
VARIABLES mgrPc, mode, prompt, module_path, module, mgrTrace, mgrRet, replies

mgrVars == <<mgrPc, mode, prompt, module_path, module, mgrTrace, mgrRet, replies>>

\* UserInterface_HS/ai_functions/llm_client.py and its callers
VARIABLES LLM_DEFAULT_MODEL, g_client, g_default_model, configures, asks

llmVars == <<LLM_DEFAULT_MODEL, g_client, g_default_model, configures, asks>>

\* two invocations of process_calendar_request in one working directory,
\* served by one provider
VARIABLES now, stub, token_json, tokenWriter, crossReads, inv

twoVars == <<now, stub, token_json, tokenWriter, crossReads, inv>>


\* one call of calendar_tools.create_event
VARIABLES cePc, start_datetime, duration_minutes, start_time, end_time,
          ceBody, ceRequests, ceRet

ceVars == <<cePc, start_datetime, duration_minutes, start_time, end_time,
            ceBody, ceRequests, ceRet>>


\* the FastAPI app of UserInterface_HS/app.py
VARIABLES appPc, apiLog

appVars == <<appPc, apiLog>>


\* the Tk windows and their on_send callbacks
VARIABLES gui, guiPc, entry, icons, output, aiCalls, response, lastSend,
          sendRet, sends

guiVars == <<gui, guiPc, entry, icons, output, aiCalls, response, lastSend,
             sendRet, sends>>

\* everything outside the calendar scripts
otherVars == <<toolVars, mgrVars, llmVars, twoVars, ceVars, appVars, guiVars>>

\* everything outside process_calendar_request
nonPipeVars == <<mainVars, otherVars>>

\* everything outside the tool-calling scripts
nonToolVars == <<pipeVars, mainVars, mgrVars, llmVars, twoVars, ceVars, appVars, guiVars>>

\* everything outside ai_manager
nonMgrVars == <<pipeVars, mainVars, toolVars, llmVars, twoVars, ceVars, appVars, guiVars>>

\* everything outside llm_client
nonLlmVars == <<pipeVars, mainVars, toolVars, mgrVars, twoVars, ceVars, appVars, guiVars>>

\* everything outside the pair of invocations
nonTwoVars == <<pipeVars, mainVars, toolVars, mgrVars, llmVars, ceVars, appVars, guiVars>>

\* everything outside create_event
nonCeVars == <<pipeVars, mainVars, toolVars, mgrVars, llmVars, twoVars, appVars, guiVars>>

\* everything outside app.py
nonAppVars == <<pipeVars, mainVars, toolVars, mgrVars, llmVars, twoVars, ceVars, guiVars>>

\* everything outside app.py and llm_client
nonServerVars == <<pipeVars, mainVars, toolVars, mgrVars, twoVars, ceVars, guiVars>>

\* everything outside the GUIs
nonGuiVars == <<pipeVars, mainVars, toolVars, mgrVars, llmVars, twoVars, ceVars, appVars>>

vars == <<pipeVars, mainVars, otherVars>>

(* ---------------- bounds and input sets ---------------- *)

\* no function is entered more often than this in one invocation
MaxCalls == 2

Variants == {"basic", "full"}

UserInputs == {"Schedule a 30 minute call with alice@x.com next Tuesday at 3pm",
               "What a wonderful world"}

Descriptions == {"30 minute call with alice@x.com next Tuesday 3pm",
                 "a remark about the world"}

\* confidence_score in thousandths; the field is an unconstrained float
Confidences == {-100, 0, 100, 699, 700, 701, 950, 1000, 1100}

Names == {"Call", "Team Meeting"}

DateStrings == {"2025-03-28 11:00", "2025-04-01 15:00", "next Tuesday"}

Durations == {30, 0, -15}

ParticipantLists == {<<>>, <<"alice@x.com">>, <<"alice@x.com", "bob@x.com">>}

Messages == {"Your Call is scheduled. Susie", "All set! Susie"}

Links == {"", "https://calendar.example/evt-123"}

(* ---------------- record shapes ---------------- *)

EventExtraction == [description : Descriptions,
                    is_calendar_event : BOOLEAN,
                    confidence_score : Confidences]

EventDetails == [name : Names,
                 date : DateStrings,
                 duration_minutes : Durations,
                 participants : ParticipantLists]

EventConfirmation == [confirmation_message : Messages,
                      calendar_link : Links]

\* errors the three LLM stages can raise
StageErrors == {"ProviderError", "ValidationError"}

\* the string both failure branches of the full workflow return
TechnicalProblems == "The meeting has not been created - there were technical problems."

\* what process_calendar_request hands to its caller
Pending == [kind |-> "pending", message |-> "", link |-> "", exc |-> ""]

ReturnNone == [kind |-> "None", message |-> "", link |-> "", exc |-> ""]

ReturnConfirmation_NoLink(c) == [kind |-> "EventConfirmation",
                                 message |-> c.confirmation_message,
                                 link |-> "", exc |-> ""]

ReturnConfirmation(c) == [kind |-> "EventConfirmation",
                          message |-> c.confirmation_message,
                          link |-> c.calendar_link, exc |-> ""]

ReturnStr(s) == [kind |-> "str", message |-> s, link |-> "", exc |-> ""]

Raised(e) == [kind |-> "raised", message |-> "", link |-> "", exc |-> e]

NoCalls == [extract_event_info |-> 0, parse_event_details |-> 0,
            authenticate |-> 0, create_event |-> 0, insert |-> 0,
            generate_confirmation |-> 0]

Bump(f) == [calls EXCEPT ![f] = @ + 1]

(* ---------------- pure helpers ---------------- *)

\* 0.7 in thousandths
GateThreshold == 700

GateFails_And(x) == ~x.is_calendar_event /\ x.confidence_score < GateThreshold

GateFails_Le(x) == ~x.is_calendar_event \/ x.confidence_score <= GateThreshold

\* the gate condition of process_calendar_request
GateFails(x) == ~x.is_calendar_event \/ x.confidence_score < GateThreshold

\* datetime.strptime(s, "%Y-%m-%d %H:%M"): which strings parse
StrptimeOk(s) == s \in {"2025-03-28 11:00", "2025-04-01 15:00"}

\* minutes since 2025-03-28 00:00 UTC of a string that parses
Strptime(s) == CASE s = "2025-03-28 11:00" -> 660
                 [] s = "2025-04-01 15:00" -> 4 * 1440 + 900
                 [] OTHER -> 0

\* the loop copying event_details.participants into patricipants_emails
CopyParticipants(ps) == [i \in 1..Len(ps) |-> ps[i]]

\* the argument process_calendar_request passes to parse_event_details
ParseArgument(x) == x.description

\* the keyword arguments process_calendar_request passes to create_event
CreateEventArguments_NoAttendees(d, emails) ==
    [title |-> d.name, start_datetime |-> d.date,
     duration_minutes |-> d.duration_minutes, attendees_emails |-> <<>>]

CreateEventArguments(d, emails) ==
    [title |-> d.name, start_datetime |-> d.date,
     duration_minutes |-> d.duration_minutes, attendees_emails |-> emails]

\* an exception raised inside a stage is not handled anywhere in
\* process_calendar_request: control leaves the function
StageErrorTarget_Retry(stage) == stage

StageErrorTarget(stage) == "done"

\* ... and the caller sees that exception
StageErrorOutcome_Swallowed(e) == ReturnNone

StageErrorOutcome(e) == Raised(e)

\* keys of the request dict built by create_event
BodyKeys == {"summary", "description", "start", "end", "location",
             "attendees", "visibility", "colorId", "reminders",
             "conferenceData"}

\* keys of the resource the backend returns for a created event
ResponseKeys == BodyKeys \cup {"id", "htmlLink"}

\* what the backend can do with one insert request
InsertResults == {"created", "HttpError", "timeout"}

\* create_event's try/except around insert(...).execute(): only HttpError is
\* caught (control falls through to the verification), anything else leaves
\* create_event as an exception
InsertNext_RetryOnHttpError(r) ==
    CASE r = "timeout" -> "done" [] r = "HttpError" -> "insert" [] OTHER -> "verify"

InsertNext_CatchAll(r) == "verify"

InsertNext_Reraise(r) == IF r = "created" THEN "verify" ELSE "done"

InsertNext(r) == IF r = "timeout" THEN "done" ELSE "verify"

\* create_event's verification of the value bound to event
HasIdAndLink_Truthy(ev) == "id" \in ev \/ TRUE

HasIdAndLink(ev) == "id" \in ev /\ "htmlLink" \in ev

\* the value bound to event before create_event builds the request
NoEvent == [keys |-> {}, summary |-> "", start |-> 0, end |-> 0,
            attendees |-> <<>>]

\* the request dict create_event builds from its arguments
RequestBody(a) ==
    [keys |-> BodyKeys, summary |-> a.title,
     start |-> Strptime(a.start_datetime),
     end |-> Strptime(a.start_datetime) + a.duration_minutes,
     attendees |-> a.attendees_emails]

\* what authenticate_and_connect_to_GoogleCalendarAPI can come back with:
\* a service object, None (build raised HttpError), or an exception of the
\* credential steps, which it does not catch
ConnectResults == {"service", "None", "AuthError"}

\* the branch on service in process_calendar_request
NextAfterConnect(svc) == IF svc = "service" THEN "create" ELSE "done"

\* the branch on meeting_created in process_calendar_request
NextAfterAct_Always(created) == "confirm"

NextAfterAct(created) == IF created THEN "confirm" ELSE "done"

\* the statement that follows parse_event_details in each script
NextAfterParse(v) == IF v = "full" THEN "connect" ELSE "confirm"

(* ---------------- initial state ---------------- *)

\* the locals of process_calendar_request and the call record, before the call
Fresh ==
    /\ initial_extraction = <<>>
    /\ event_details = <<>>
    /\ service = "unset"
    /\ event = NoEvent
    /\ meeting_created = <<>>
    /\ confirmation = <<>>
    /\ outcome = Pending
    /\ calls = NoCalls
    /\ parseArgs = <<>>
    /\ createArgs = <<>>
    /\ confirmArgs = <<>>
    /\ insertBodies = <<>>
    /\ calendar = <<>>
    /\ raisedBy = ""
    /\ insertResult = ""

\* the answer of a completion request that was not sent yet
NoCompletion == [content |-> "", has_tool_calls |-> FALSE, tool_calls |-> <<>>]

\* the tool-calling scripts are not running
ToolsIdle ==
    /\ script = "weather"
    /\ tpc = "off"
    /\ messages = <<>>
    /\ completion = NoCompletion
    /\ tidx = 1
    /\ executed = <<>>
    /\ sent = <<>>
    /\ texc = ""

\* no return value yet
NoReturn == [kind |-> "none", value |-> ""]

\* ai_manager is not in use
MgrIdle ==
    /\ mgrPc = "off"
    /\ mode = ""
    /\ prompt = ""
    /\ module_path = ""
    /\ module = ""
    /\ mgrTrace = <<>>
    /\ mgrRet = NoReturn
    /\ replies = <<>>

\* Python's None where a string is expected
NoneValue == "<None>"

\* llm_client is loaded and not in use
LlmIdle ==
    /\ LLM_DEFAULT_MODEL = NoneValue
    /\ g_client = NoneValue
    /\ g_default_model = NoneValue
    /\ configures = <<>>
    /\ asks = <<>>

\* no second pair of invocations is running
TwoIdle ==
    /\ now = [day |-> 27, slot |-> 0]
    /\ stub = <<>>
    /\ token_json = "absent"
    /\ tokenWriter = 0
    /\ crossReads = {}
    /\ inv = <<>>


\* a start_datetime text: its fields and the way they are written
NoText == [shape |-> "", year |-> 0, month |-> 0, day |-> 0, hour |-> 0, minute |-> 0]

\* a datetime that was not computed
NoTime == <<>>

\* the request dict before it is built
NoBody == [start |-> "", startZone |-> "", end |-> "", endZone |-> ""]

\* create_event is not being called
CreateIdle ==
    /\ cePc = "off"
    /\ start_datetime = NoText
    /\ duration_minutes = 0
    /\ start_time = NoTime
    /\ end_time = NoTime
    /\ ceBody = NoBody
    /\ ceRequests = <<>>
    /\ ceRet = NoReturn


\* the app is not started
AppIdle ==
    /\ appPc = "off"
    /\ apiLog = <<>>


\* the output area as created: empty and read-only
EmptyOutput == [state |-> "disabled", content |-> <<>>]

\* no on_send has run
NoSend == [text |-> "", before |-> EmptyOutput, callsBefore |-> 0]

\* no window is open
GuiIdle ==
    /\ gui = "chat"
    /\ guiPc = "off"
    /\ entry = ""
    /\ icons = {}
    /\ output = EmptyOutput
    /\ aiCalls = 0
    /\ response = NoReturn
    /\ lastSend = NoSend
    /\ sendRet = ""
    /\ sends = 0

\* the other scripts are not running
OthersIdle == ToolsIdle /\ MgrIdle /\ LlmIdle /\ TwoIdle /\ CreateIdle /\ AppIdle /\ GuiIdle

\* process_calendar_request has just been called with a text
Init ==
    /\ variant \in Variants
    /\ user_input \in UserInputs
    /\ pc = "extract"
    /\ Fresh
    /\ mainPc = "called"
    /\ printed = <<>>
    /\ heard = <<>>
    /\ OthersIdle

(* ---------------- process_calendar_request, step by step ---------------- *)

\* Stage 1: initial_extraction = extract_event_info(user_input)
extract_event_info ==
    /\ pc = "extract"
    /\ calls.extract_event_info < MaxCalls
    /\ calls' = Bump("extract_event_info")
    /\ \/ \E x \in EventExtraction :
             /\ initial_extraction' = <<x>>
             /\ pc' = "gate"
             /\ UNCHANGED <<outcome, raisedBy>>
       \/ \E e \in StageErrors :
             /\ pc' = StageErrorTarget("extract")
             /\ outcome' = IF pc' = "done" THEN StageErrorOutcome(e) ELSE outcome
             /\ raisedBy' = "extract_event_info"
             /\ UNCHANGED initial_extraction
    /\ UNCHANGED nonPipeVars
    /\ UNCHANGED <<insertResult, variant, user_input, event_details, service, event,
                   meeting_created, confirmation, parseArgs, createArgs,
                   confirmArgs, insertBodies, calendar>>

\* the gate: return None, or go on to Stage 2
GateCheck ==
    /\ pc = "gate"
    /\ IF GateFails(initial_extraction[1])
          THEN pc' = "done" /\ outcome' = ReturnNone
          ELSE pc' = "parse" /\ UNCHANGED outcome
    /\ UNCHANGED nonPipeVars
    /\ UNCHANGED <<insertResult, variant, user_input, initial_extraction, event_details,
                   service, event, meeting_created, confirmation, calls,
                   parseArgs, createArgs, confirmArgs, insertBodies,
                   calendar, raisedBy>>

\* Stage 2: event_details = parse_event_details(initial_extraction.description)
parse_event_details ==
    /\ pc = "parse"
    /\ calls.parse_event_details < MaxCalls
    /\ calls' = Bump("parse_event_details")
    /\ parseArgs' = Append(parseArgs, ParseArgument(initial_extraction[1]))
    /\ \/ \E d \in EventDetails :
             /\ event_details' = <<d>>
             /\ pc' = NextAfterParse(variant)
             /\ UNCHANGED <<outcome, raisedBy>>
       \/ \E e \in StageErrors :
             /\ pc' = StageErrorTarget("parse")
             /\ outcome' = IF pc' = "done" THEN StageErrorOutcome(e) ELSE outcome
             /\ raisedBy' = "parse_event_details"
             /\ UNCHANGED event_details
    /\ UNCHANGED nonPipeVars
    /\ UNCHANGED <<insertResult, variant, user_input, initial_extraction, service, event,
                   meeting_created, confirmation, createArgs, confirmArgs,
                   insertBodies, calendar>>

\* service = calendar_tools.authenticate_and_connect_to_GoogleCalendarAPI()
authenticate_and_connect_to_GoogleCalendarAPI ==
    /\ pc = "connect"
    /\ calls.authenticate < MaxCalls
    /\ calls' = Bump("authenticate")
    /\ \E r \in ConnectResults :
          IF r = "AuthError"
             THEN /\ pc' = "done"
                  /\ outcome' = Raised(r)
                  /\ raisedBy' = "authenticate"
                  /\ UNCHANGED service
             ELSE /\ service' = r
                  /\ pc' = "if_service"
                  /\ UNCHANGED <<outcome, raisedBy>>
    /\ UNCHANGED nonPipeVars
    /\ UNCHANGED <<insertResult, variant, user_input, initial_extraction, event_details,
                   event, meeting_created, confirmation, parseArgs,
                   createArgs, confirmArgs, insertBodies, calendar>>

\* if service: ... else: return "The meeting has not been created ..."
IfService ==
    /\ pc = "if_service"
    /\ pc' = NextAfterConnect(service)
    /\ outcome' = IF pc' = "done" THEN ReturnStr(TechnicalProblems) ELSE outcome
    /\ UNCHANGED nonPipeVars
    /\ UNCHANGED <<insertResult, variant, user_input, initial_extraction, event_details,
                   service, event, meeting_created, confirmation, calls,
                   parseArgs, createArgs, confirmArgs, insertBodies,
                   calendar, raisedBy>>

\* create_event, entry: parse start_datetime and build the request dict
create_event_build ==
    /\ pc = "create"
    /\ calls.create_event < MaxCalls
    /\ calls' = Bump("create_event")
    /\ LET a == CreateEventArguments(event_details[1],
                                     CopyParticipants(event_details[1].participants))
       IN /\ createArgs' = Append(createArgs, a)
          /\ IF StrptimeOk(a.start_datetime)
                THEN /\ event' = RequestBody(a)
                     /\ pc' = "insert"
                     /\ UNCHANGED <<outcome, raisedBy>>
                ELSE /\ pc' = "done"
                     /\ outcome' = Raised("ValueError")
                     /\ raisedBy' = "create_event"
                     /\ UNCHANGED event
    /\ UNCHANGED nonPipeVars
    /\ UNCHANGED <<insertResult, variant, user_input, initial_extraction, event_details,
                   service, meeting_created, confirmation, parseArgs,
                   confirmArgs, insertBodies, calendar>>

\* create_event, the try block: service.events().insert(...).execute()
create_event_insert ==
    /\ pc = "insert"
    /\ calls.insert < MaxCalls
    /\ calls' = Bump("insert")
    /\ insertBodies' = Append(insertBodies, event)
    /\ \E r \in InsertResults :
          /\ \/ /\ r = "created"
                /\ calendar' = Append(calendar, event)
                /\ event' = [event EXCEPT !.keys = ResponseKeys]
             \/ /\ r = "HttpError"
                /\ UNCHANGED <<calendar, event>>
             \/ /\ r = "timeout"
                /\ \/ calendar' = Append(calendar, event)
                   \/ UNCHANGED calendar
                /\ UNCHANGED event
          /\ insertResult' = r
          /\ pc' = InsertNext(r)
          /\ outcome' = IF pc' = "done"
                           THEN Raised(IF r = "timeout" THEN "TransportError" ELSE r)
                           ELSE outcome
          /\ raisedBy' = IF pc' = "done" THEN "insert" ELSE raisedBy
    /\ UNCHANGED nonPipeVars
    /\ UNCHANGED <<variant, user_input, initial_extraction, event_details,
                   service, meeting_created, confirmation, parseArgs,
                   createArgs, confirmArgs>>

\* create_event, the verification: return True or False
create_event_verify ==
    /\ pc = "verify"
    /\ meeting_created' = <<HasIdAndLink(event.keys)>>
    /\ pc' = "if_created"
    /\ UNCHANGED nonPipeVars
    /\ UNCHANGED <<insertResult, variant, user_input, initial_extraction, event_details,
                   service, event, confirmation, outcome, calls, parseArgs,
                   createArgs, confirmArgs, insertBodies, calendar, raisedBy>>

\* if meeting_created: ... else: return "The meeting has not been created ..."
IfMeetingCreated ==
    /\ pc = "if_created"
    /\ pc' = NextAfterAct(meeting_created[1])
    /\ outcome' = IF pc' = "done" THEN ReturnStr(TechnicalProblems) ELSE outcome
    /\ UNCHANGED nonPipeVars
    /\ UNCHANGED <<insertResult, variant, user_input, initial_extraction, event_details,
                   service, event, meeting_created, confirmation, calls,
                   parseArgs, createArgs, confirmArgs, insertBodies,
                   calendar, raisedBy>>

\* Stage 3: confirmation = generate_confirmation(event_details)
generate_confirmation ==
    /\ pc = "confirm"
    /\ calls.generate_confirmation < MaxCalls
    /\ calls' = Bump("generate_confirmation")
    /\ confirmArgs' = Append(confirmArgs, event_details[1])
    /\ \/ \E c \in EventConfirmation :
             /\ confirmation' = <<c>>
             /\ pc' = "return"
             /\ UNCHANGED <<outcome, raisedBy>>
       \/ \E e \in StageErrors :
             /\ pc' = StageErrorTarget("confirm")
             /\ outcome' = IF pc' = "done" THEN StageErrorOutcome(e) ELSE outcome
             /\ raisedBy' = "generate_confirmation"
             /\ UNCHANGED confirmation
    /\ UNCHANGED nonPipeVars
    /\ UNCHANGED <<insertResult, variant, user_input, initial_extraction, event_details,
                   service, event, meeting_created, parseArgs, createArgs,
                   insertBodies, calendar>>

\* return confirmation
ReturnConfirmed ==
    /\ pc = "return"
    /\ pc' = "done"
    /\ outcome' = ReturnConfirmation(confirmation[1])
    /\ UNCHANGED nonPipeVars
    /\ UNCHANGED <<insertResult, variant, user_input, initial_extraction, event_details,
                   service, event, meeting_created, confirmation, calls,
                   parseArgs, createArgs, confirmArgs, insertBodies,
                   calendar, raisedBy>>

(* ---------------- __main__ of the full workflow ---------------- *)


\* what one pass of the loop of live_transcription can end with
ListenResults == {"WaitTimeoutError", "transcript", "error"}

\* texts the transcription can yield (silence transcribes to the empty text)
Transcripts == UserInputs \cup {""}

\* the line printed for a result that is not truthy
NotAnEventText == "This doesn't appear to be a calendar event request."

\* Python truth value of what process_calendar_request returned
Truthy(o) == CASE o.kind = "None" -> FALSE
               [] o.kind = "str" -> o.message # ""
               [] OTHER -> TRUE

\* what the script shows after the call: the lines printed by the if/else on
\* result, or the traceback of an exception nobody caught (reading
\* confirmation_message of a str raises AttributeError)
CallerPrints(o) ==
    CASE o.kind = "raised" -> <<"Traceback", o.exc>>
      [] o.kind # "raised" /\ ~Truthy(o) -> <<NotAnEventText>>
      [] o.kind = "str" /\ Truthy(o) -> <<"Traceback", "AttributeError">>
      [] OTHER -> IF o.link # ""
                     THEN <<"Confirmation: ", o.message, "Calendar Link: ", o.link>>
                     ELSE <<"Confirmation: ", o.message>>

\* the calendar scripts are not running
PipeIdle ==
    /\ variant = "full"
    /\ user_input = NoneValue
    /\ pc = "idle"
    /\ Fresh
    /\ mainPc = "off"
    /\ printed = <<>>
    /\ heard = <<>>

\* the script has started; nothing was heard yet
InitMain ==
    /\ variant = "full"
    /\ user_input = NoneValue
    /\ pc = "idle"
    /\ Fresh
    /\ mainPc = "listen"
    /\ printed = <<>>
    /\ heard = <<>>
    /\ OthersIdle

\* where live_transcription goes after a listen attempt: around the loop
\* again after WaitTimeoutError, out of the function otherwise
AfterListen_StopOnTimeout(r) == "call"

AfterListen(r) == IF r = "WaitTimeoutError" THEN "listen" ELSE "call"

\* the results of the listen attempts so far, repeats of one result
\* written once
Heard(r) == IF heard # <<>> /\ heard[Len(heard)] = r THEN heard ELSE Append(heard, r)

\* user_input = live_transcription(): one pass of its while loop
live_transcription ==
    /\ mainPc = "listen"
    /\ \E r \in ListenResults :
          /\ heard' = Heard(r)
          /\ mainPc' = AfterListen(r)
          /\ \/ /\ r = "WaitTimeoutError"
                /\ UNCHANGED user_input
             \/ /\ r = "transcript"
                /\ \E t \in Transcripts : user_input' = t
             \/ /\ r = "error"
                /\ user_input' = NoneValue
    /\ UNCHANGED <<variant, pc, initial_extraction, event_details, service,
                   event, meeting_created, confirmation, outcome, calls,
                   parseArgs, createArgs, confirmArgs, insertBodies, calendar,
                   raisedBy, insertResult, printed>>
    /\ UNCHANGED otherVars

\* result = process_calendar_request(user_input): the call follows
\* live_transcription directly, whatever it returned
MainCall ==
    /\ mainPc = "call"
    /\ pc' = "extract"
    /\ mainPc' = "called"
    /\ UNCHANGED <<printed, heard>>
    /\ UNCHANGED <<variant, user_input, initial_extraction, event_details,
                   service, event, meeting_created, confirmation, outcome,
                   calls, parseArgs, createArgs, confirmArgs, insertBodies,
                   calendar, raisedBy, insertResult>>
    /\ UNCHANGED otherVars

\* if result: print the confirmation ... else: print the refusal
MainPrint ==
    /\ mainPc = "called"
    /\ pc = "done"
    /\ printed' = CallerPrints(outcome)
    /\ mainPc' = "exit"
    /\ UNCHANGED heard
    /\ UNCHANGED pipeVars
    /\ UNCHANGED otherVars

(* ---------------- 3-tools.py and 4-retrieval.py ---------------- *)

\* most tool invocations one completion asks for
MaxToolCalls == 2

Scripts == {"weather", "kb"}

\* the tool each script registers
RegisteredTool(sc) == IF sc = "weather" THEN "get_weather" ELSE "search_kb"

\* names the model can put into a tool call
ToolNames(sc) == {RegisteredTool(sc), "lookup_order"}

\* the JSON text of the arguments of a tool call
ArgStrings(sc) ==
    IF sc = "weather"
       THEN {"{\"latitude\":48.8566,\"longitude\":2.3522}",
             "{\"latitude\":35.6762,\"longitude\":139.6503}"}
       ELSE {"{\"question\":\"return policy\"}",
             "{\"question\":\"shipping\"}"}

\* json.loads of the arguments: the dict handed to call_function
JsonLoads(str) ==
    CASE str = "{\"latitude\":48.8566,\"longitude\":2.3522}" ->
            "{'latitude': 48.8566, 'longitude': 2.3522}"
      [] str = "{\"latitude\":35.6762,\"longitude\":139.6503}" ->
            "{'latitude': 35.6762, 'longitude': 139.6503}"
      [] str = "{\"question\":\"return policy\"}" -> "{'question': 'return policy'}"
      [] str = "{\"question\":\"shipping\"}" -> "{'question': 'shipping'}"
      [] OTHER -> "JSONDecodeError"

\* values the registered tool can return (Python values)
ToolResults(sc) ==
    IF sc = "weather"
       THEN {"{'temperature_2m': 29.5, 'wind_speed_10m': 10.3}",
             "{'temperature_2m': 11.0, 'wind_speed_10m': 4.2}"}
       ELSE {"{'records': [{'id': 1, 'answer': 'Items can be returned within 30 days'}]}"}

\* json.dumps of a value call_function returned
JsonDumps(v) ==
    CASE v = "None" -> "null"
      [] v = "{'temperature_2m': 29.5, 'wind_speed_10m': 10.3}" ->
            "{\"temperature_2m\": 29.5, \"wind_speed_10m\": 10.3}"
      [] v = "{'temperature_2m': 11.0, 'wind_speed_10m': 4.2}" ->
            "{\"temperature_2m\": 11.0, \"wind_speed_10m\": 4.2}"
      [] v = "{'records': [{'id': 1, 'answer': 'Items can be returned within 30 days'}]}" ->
            "{\"records\": [{\"id\": 1, \"answer\": \"Items can be returned within 30 days\"}]}"
      [] OTHER -> "TypeError"

Returns(v) == [kind |-> "return", value |-> v]

Raises(e) == [kind |-> "raise", value |-> e]

\* what call_function(name, args) can do: run the registered tool, which
\* returns a value or raises; for any other name 3-tools.py raises
\* ValueError and 4-retrieval.py falls off the end and returns None
call_function(sc, name) ==
    IF name = RegisteredTool(sc)
       THEN {Returns(v) : v \in ToolResults(sc)} \cup {Raises("ToolError")}
       ELSE IF sc = "weather" THEN {Raises("ValueError")} ELSE {Returns("None")}

\* a dict message of the conversation
Message(role, content) ==
    [role |-> role, content |-> content, tool_call_id |-> "", tool_calls |-> <<>>]

\* completion.choices[0].message as appended to messages
AssistantMessage(c) ==
    [role |-> "assistant", content |-> c.content, tool_call_id |-> "",
     tool_calls |-> c.tool_calls]

\* the message that feeds a tool result back
ToolMessage_NoId(tc, v) ==
    [role |-> "tool", content |-> JsonDumps(v), tool_call_id |-> "",
     tool_calls |-> <<>>]

ToolMessage(tc, v) ==
    [role |-> "tool", content |-> JsonDumps(v), tool_call_id |-> tc.id,
     tool_calls |-> <<>>]

\* the messages list each script starts with
InitialMessages(sc) ==
    IF sc = "weather"
       THEN <<Message("system", "You are a helpful weather assistant."),
              Message("user", "What's the weather like in Paris today?")>>
       ELSE <<Message("system", "You are a helpful assistant that answers questions from the knowledge base about our e-commerce store."),
              Message("user", "What is the return policy?")>>

\* the ids the provider gives the tool calls of one completion
CallId(k) == IF k = 1 THEN "call_1" ELSE IF k = 2 THEN "call_2" ELSE "call_3"

\* the answers the first completion can give: some tool calls, or free text
\* (then message.tool_calls is None)
FirstCompletions(sc) ==
    {[content |-> "", has_tool_calls |-> TRUE,
      tool_calls |-> [k \in 1..n |-> [id |-> CallId(k), name |-> names[k],
                                      arguments |-> args[k]]]] :
        <<n, names, args>> \in
           UNION {{<<m, nm, ar>> : nm \in [1..m -> ToolNames(sc)],
                                   ar \in [1..m -> ArgStrings(sc)]} :
                  m \in 1..MaxToolCalls}}
    \cup {[content |-> "I cannot help with that.", has_tool_calls |-> FALSE,
           tool_calls |-> <<>>]}

InitTools ==
    /\ PipeIdle
    /\ GuiIdle
    /\ AppIdle
    /\ CreateIdle
    /\ MgrIdle
    /\ LlmIdle
    /\ TwoIdle
    /\ script \in Scripts
    /\ tpc = "first"
    /\ messages = InitialMessages(script)
    /\ completion = NoCompletion
    /\ tidx = 1
    /\ executed = <<>>
    /\ sent = <<>>
    /\ texc = ""

\* completion = client.chat.completions.create(messages=messages, tools=tools)
FirstCompletion ==
    /\ tpc = "first"
    /\ sent' = Append(sent, messages)
    /\ \/ /\ \E c \in FirstCompletions(script) : completion' = c
          /\ tpc' = "loop"
          /\ UNCHANGED texc
       \/ /\ tpc' = "crashed"
          /\ texc' = "ProviderError"
          /\ UNCHANGED completion
    /\ UNCHANGED <<script, messages, tidx, executed>>
    /\ UNCHANGED nonToolVars

\* one pass of: for tool_call in completion.choices[0].message.tool_calls
ToolLoopStep ==
    /\ tpc = "loop"
    /\ completion.has_tool_calls
    /\ tidx <= Len(completion.tool_calls)
    /\ LET tc == completion.tool_calls[tidx]
           args == JsonLoads(tc.arguments)
           withAssistant == Append(messages, AssistantMessage(completion))
       IN \E o \in call_function(script, tc.name) :
             /\ executed' = Append(executed, [id |-> tc.id, name |-> tc.name,
                                              args |-> args, outcome |-> o])
             /\ IF o.kind = "return"
                   THEN /\ messages' = Append(withAssistant, ToolMessage(tc, o.value))
                        /\ tidx' = tidx + 1
                        /\ tpc' = IF tidx = Len(completion.tool_calls)
                                     THEN "second" ELSE "loop"
                        /\ UNCHANGED texc
                   ELSE /\ messages' = withAssistant
                        /\ tpc' = "crashed"
                        /\ texc' = o.value
                        /\ UNCHANGED tidx
    /\ UNCHANGED <<script, completion, sent>>
    /\ UNCHANGED nonToolVars

\* the same for statement when the first completion was free text: iterating
\* over None raises TypeError
ToolLoopNone ==
    /\ tpc = "loop"
    /\ ~completion.has_tool_calls
    /\ tpc' = "crashed"
    /\ texc' = "TypeError"
    /\ UNCHANGED <<script, messages, completion, tidx, executed, sent>>
    /\ UNCHANGED nonToolVars

\* completion_2 = client.beta.chat.completions.parse(messages=messages, ...)
SecondCompletion ==
    /\ tpc = "second"
    /\ sent' = Append(sent, messages)
    /\ \/ tpc' = "end" /\ UNCHANGED texc
       \/ tpc' = "crashed" /\ texc' = "ProviderError"
    /\ UNCHANGED <<script, messages, completion, tidx, executed>>
    /\ UNCHANGED nonToolVars

NextTools ==
    \/ FirstCompletion
    \/ ToolLoopStep
    \/ ToolLoopNone
    \/ SecondCompletion

SpecTools == InitTools /\ [][NextTools]_vars

(* ---------------- UserInterface_HS/ai_manager.py ---------------- *)

\* most calls of call_ai_function one session makes
MaxRequests == 2

AVAILABLE_MODES ==
    [md \in {"Q&A", "Data Analysis"} |->
        IF md = "Q&A" THEN "ai_functions.qa" ELSE "ai_functions.data_analysis"]

\* modes a caller can pass
Modes == {"Q&A", "Data Analysis", "Summarise", ""}

Prompts == {"What is phishing?", ""}

\* AVAILABLE_MODES.get(mode): the path, or None (here the empty string,
\* which "not module_path" treats alike)
ModeGet(md) == IF md \in DOMAIN AVAILABLE_MODES THEN AVAILABLE_MODES[md] ELSE ""

\* importlib.import_module(module_path): the module is loaded, with or
\* without a run attribute, or the import fails with ImportError
ImportResults == {"module", "module without run", "ImportError"}

\* what module.run(prompt) can do
RunOutcomes ==
    {Returns("Phishing is a social engineering attack."), Returns(""),
     Raises("APIConnectionError"), Raises("AttributeError")}

InvalidMode(md) == Returns(<<"Invalid mode: ", md>>)

ErrorImporting(path, err) == Returns(<<"Error importing ", path, ": ", err>>)

MissingRun(path) == Returns(<<"Module '", path, "' missing run(prompt) function">>)

\* except Exception as err: return the message
ExecutionError_Reraise(err) == Raises(err)

ExecutionError(err) == Returns(<<"Error during AI function execution: ", err>>)

InitManager ==
    /\ PipeIdle
    /\ GuiIdle
    /\ AppIdle
    /\ CreateIdle
    /\ ToolsIdle
    /\ LlmIdle
    /\ TwoIdle
    /\ mgrPc = "ready"
    /\ mode = ""
    /\ prompt = ""
    /\ module_path = ""
    /\ module = ""
    /\ mgrTrace = <<>>
    /\ mgrRet = NoReturn
    /\ replies = <<>>

\* a caller invokes call_ai_function(mode, prompt)
ManagerCall ==
    /\ mgrPc = "ready"
    /\ Len(replies) < MaxRequests
    /\ \E md \in Modes, pr \in Prompts : mode' = md /\ prompt' = pr
    /\ mgrPc' = "get"
    /\ module_path' = ""
    /\ module' = ""
    /\ mgrTrace' = <<>>
    /\ mgrRet' = NoReturn
    /\ UNCHANGED replies
    /\ UNCHANGED nonMgrVars

\* module_path = AVAILABLE_MODES.get(mode); if not module_path: return ...
ManagerGet ==
    /\ mgrPc = "get"
    /\ module_path' = ModeGet(mode)
    /\ IF ModeGet(mode) = ""
          THEN mgrRet' = InvalidMode(mode) /\ mgrPc' = "exit"
          ELSE mgrPc' = "import" /\ UNCHANGED mgrRet
    /\ UNCHANGED <<mode, prompt, module, mgrTrace, replies>>
    /\ UNCHANGED nonMgrVars

\* try: module = importlib.import_module(module_path) except ImportError
ManagerImport ==
    /\ mgrPc = "import"
    /\ mgrTrace' = Append(mgrTrace, [op |-> "import_module", arg |-> module_path])
    /\ \E r \in ImportResults :
          IF r = "ImportError"
             THEN /\ mgrRet' = ErrorImporting(module_path, "No module named 'ai_functions'")
                  /\ mgrPc' = "exit"
                  /\ UNCHANGED module
             ELSE /\ module' = r
                  /\ mgrPc' = "hasattr"
                  /\ UNCHANGED mgrRet
    /\ UNCHANGED <<mode, prompt, module_path, replies>>
    /\ UNCHANGED nonMgrVars

\* if not hasattr(module, "run"): return ...
ManagerHasattr ==
    /\ mgrPc = "hasattr"
    /\ IF module = "module without run"
          THEN mgrRet' = MissingRun(module_path) /\ mgrPc' = "exit"
          ELSE mgrPc' = "run" /\ UNCHANGED mgrRet
    /\ UNCHANGED <<mode, prompt, module_path, module, mgrTrace, replies>>
    /\ UNCHANGED nonMgrVars

\* try: return module.run(prompt) except Exception as err: return ...
ManagerRun ==
    /\ mgrPc = "run"
    /\ \E o \in RunOutcomes :
          /\ mgrTrace' = Append(mgrTrace, [op |-> "run", arg |-> prompt, outcome |-> o])
          /\ mgrRet' = IF o.kind = "return" THEN o ELSE ExecutionError(o.value)
    /\ mgrPc' = "exit"
    /\ UNCHANGED <<mode, prompt, module_path, module, replies>>
    /\ UNCHANGED nonMgrVars

\* the call is over: the caller has its value, or the exception
ManagerExit ==
    /\ mgrPc = "exit"
    /\ replies' = Append(replies, mgrRet)
    /\ mgrPc' = "ready"
    /\ UNCHANGED <<mode, prompt, module_path, module, mgrTrace, mgrRet>>
    /\ UNCHANGED nonMgrVars

NextManager ==
    \/ ManagerCall
    \/ ManagerGet
    \/ ManagerImport
    \/ ManagerHasattr
    \/ ManagerRun
    \/ ManagerExit

SpecManager == InitManager /\ [][NextManager]_vars

(* ------------- UserInterface_HS/ai_functions/llm_client.py ------------- *)

\* most configure() calls and most ask() calls of one process
MaxConfigures == 2

MaxAsks == 2

\* config.LLM_MODELS
LLM_MODELS == {"openchat-3.5-0106:latest", "phi3:latest"}

\* values of the environment variable behind config.LLM_DEFAULT_MODEL
DefaultModelSettings == {NoneValue, "openchat-3.5-0106:latest"}

\* the default_model argument of configure()
DefaultModelArgs == {NoneValue, "", "phi3:latest"}

\* the model argument of ask()
ModelArgs == {NoneValue, "", "phi3:latest"}

AskPrompts == {"What is phishing?", "hello"}

\* a or b in Python: b when a is None or the empty string
Or(x, y) == IF x = NoneValue \/ x = "" THEN y ELSE x

\* chosen = model or _default_model
Chosen_NoneOnly(m, d) == IF m = NoneValue THEN d ELSE m

Chosen(m, d) == Or(m, d)

\* building the client: LocalLLM(...) with httpx.Client(verify=...) is
\* built, or a constructor raises (no certificate file, no base URL)
BuildResults == {"LocalLLM", "OSError", "AttributeError"}

\* what the one self.client.post of LocalLLM.chat leads to: the reply text,
\* RuntimeError after an HTTP error status, or a transport error
ChatOutcomes ==
    {Returns("Phishing is a social engineering attack."),
     Raises("RuntimeError: LLM API error"), Raises("ConnectError")}

InitLlm ==
    /\ PipeIdle
    /\ GuiIdle
    /\ AppIdle
    /\ CreateIdle
    /\ ToolsIdle
    /\ MgrIdle
    /\ TwoIdle
    /\ LLM_DEFAULT_MODEL \in DefaultModelSettings
    /\ g_client = NoneValue
    /\ g_default_model = NoneValue
    /\ configures = <<>>
    /\ asks = <<>>

\* configure(default_model=dm): the default is stored first, then the
\* client is built and stored; when building raises the old client stays
configure ==
    /\ Len(configures) < MaxConfigures
    /\ \E dm \in DefaultModelArgs, b \in BuildResults :
          /\ g_default_model' = Or(dm, LLM_DEFAULT_MODEL)
          /\ g_client' = IF b = "LocalLLM" THEN b ELSE g_client
          /\ configures' = Append(configures,
                 [default_model |-> dm, completed |-> (b = "LocalLLM")])
    /\ UNCHANGED <<LLM_DEFAULT_MODEL, asks>>
    /\ UNCHANGED nonLlmVars

\* ask(prompt, model) with no client: raise RuntimeError
ask_unconfigured ==
    /\ Len(asks) < MaxAsks
    /\ g_client = NoneValue
    /\ \E pr \in AskPrompts, m \in ModelArgs :
          asks' = Append(asks,
              [prompt |-> pr, model |-> m, nconf |-> Len(configures),
               requests |-> <<>>,
               ret |-> Raises("RuntimeError: llm_client is not configured")])
    /\ UNCHANGED <<LLM_DEFAULT_MODEL, g_client, g_default_model, configures>>
    /\ UNCHANGED nonLlmVars

\* ask(prompt, model) with a client: one _client.chat(chosen, messages)
ask ==
    /\ Len(asks) < MaxAsks
    /\ g_client # NoneValue
    /\ \E pr \in AskPrompts, m \in ModelArgs, o \in ChatOutcomes :
          asks' = Append(asks,
              [prompt |-> pr, model |-> m, nconf |-> Len(configures),
               requests |-> <<[model |-> Chosen(m, g_default_model),
                               messages |-> <<Message("user", pr)>>]>>,
               ret |-> o])
    /\ UNCHANGED <<LLM_DEFAULT_MODEL, g_client, g_default_model, configures>>
    /\ UNCHANGED nonLlmVars

NextLlm ==
    \/ configure
    \/ ask_unconfigured
    \/ ask

SpecLlm == InitLlm /\ [][NextLlm]_vars

(* ------------- two invocations of process_calendar_request ------------- *)

\* days the clock can show while the two invocations run
MaxDays == 2

Invocations == {1, 2}

FirstDay == 27

\* datetime.now(): the day of March 2025 and the part of the day
Clock == [day : FirstDay..(FirstDay + MaxDays - 1), slot : {0, 1}]

\* today.strftime('%A'), for the days of March 2025 from the 27th on
Weekday(d) ==
    CASE d % 7 = 6 -> "Thursday"
      [] d % 7 = 0 -> "Friday"
      [] d % 7 = 1 -> "Saturday"
      [] d % 7 = 2 -> "Sunday"
      [] d % 7 = 3 -> "Monday"
      [] d % 7 = 4 -> "Tuesday"
      [] OTHER -> "Wednesday"

\* date_context = f"Today is {today.strftime('%A, %B %d, %Y')}."
date_context_WithTime(n) ==
    <<"Today is ", Weekday(n.day), ", March ", n.day, ", 2025.", n.slot>>

date_context(n) == <<"Today is ", Weekday(n.day), ", March ", n.day, ", 2025.", 0>>

\* the request of Stage 1 and of Stage 2
ExtractRequest(n, text) ==
    [stage |-> "extract", system |-> date_context(n), user |-> text]

ParseRequest(n, description) ==
    [stage |-> "parse", system |-> date_context(n), user |-> description]

\* what the provider can answer to a Stage 1 request
StubExtractions ==
    {[parsed |-> <<x>>, error |-> ""] :
        x \in {[description |-> "30 minute call with alice@x.com next Tuesday 3pm",
                is_calendar_event |-> TRUE, confidence_score |-> 950],
               [description |-> "a remark about the world",
                is_calendar_event |-> FALSE, confidence_score |-> 100]}}
    \cup {[parsed |-> <<>>, error |-> "ProviderError"]}

\* what the provider can answer to a Stage 2 request
StubDetails ==
    {[parsed |-> <<x>>, error |-> ""] :
        x \in {[name |-> "Call", date |-> "2025-04-01 15:00",
                duration_minutes |-> 30, participants |-> <<"alice@x.com">>],
               [name |-> "Call", date |-> "2025-03-28 11:00",
                duration_minutes |-> 30, participants |-> <<"alice@x.com">>]}}
    \cup {[parsed |-> <<>>, error |-> "ProviderError"]}

NoResponse == [parsed |-> <<>>, error |-> ""]

\* the provider is a function of its request: a request seen before gets
\* the answer it got before, a new one gets any answer
Answered == {stub[k].request : k \in 1..Len(stub)}

AnswerTo(req) == (CHOOSE k \in 1..Len(stub) : stub[k].request = req)

StubAnswers(req, fresh) ==
    IF req \in Answered THEN {stub[AnswerTo(req)].response} ELSE fresh

Remember(req, resp) ==
    IF req \in Answered THEN stub ELSE Append(stub, [request |-> req, response |-> resp])

\* states of the file token.json
TokenStates == {"absent", "valid", "expired", "truncated"}

NotStarted(text) ==
    [pc |-> "extract", user_input |-> text, now1 |-> <<>>, stage1 |-> NoResponse,
     now2 |-> <<>>, stage2 |-> NoResponse, parseArg |-> <<>>, creds |-> "None",
     tokenSeen |-> "", outcome |-> Pending]

InitTwo ==
    /\ PipeIdle
    /\ GuiIdle
    /\ AppIdle
    /\ CreateIdle
    /\ ToolsIdle
    /\ MgrIdle
    /\ LlmIdle
    /\ now = [day |-> FirstDay, slot |-> 0]
    /\ stub = <<>>
    /\ token_json \in {"absent", "valid", "expired"}
    /\ tokenWriter = 0
    /\ crossReads = {}
    /\ \E t \in [Invocations -> UserInputs] : inv = [i \in Invocations |-> NotStarted(t[i])]

\* time passes
Tick ==
    /\ \E n \in Clock :
          /\ \/ n.day = now.day /\ n.slot > now.slot
             \/ n.day = now.day + 1 /\ n.slot = 0
          /\ now' = n
    /\ UNCHANGED <<stub, token_json, tokenWriter, crossReads, inv>>
    /\ UNCHANGED nonTwoVars

\* initial_extraction = extract_event_info(user_input)
TwoExtract(i) ==
    /\ inv[i].pc = "extract"
    /\ LET req == ExtractRequest(now, inv[i].user_input)
       IN \E resp \in StubAnswers(req, StubExtractions) :
             /\ stub' = Remember(req, resp)
             /\ inv' = [inv EXCEPT ![i].now1 = <<now>>,
                                   ![i].stage1 = resp,
                                   ![i].pc = IF resp.error = "" THEN "gate" ELSE "done",
                                   ![i].outcome = IF resp.error = "" THEN Pending
                                                  ELSE Raised(resp.error)]
    /\ UNCHANGED <<now, token_json, tokenWriter, crossReads>>
    /\ UNCHANGED nonTwoVars

\* the gate
TwoGate(i) ==
    /\ inv[i].pc = "gate"
    /\ inv' = IF GateFails(inv[i].stage1.parsed[1])
                 THEN [inv EXCEPT ![i].pc = "done", ![i].outcome = ReturnNone]
                 ELSE [inv EXCEPT ![i].pc = "parse"]
    /\ UNCHANGED <<now, stub, token_json, tokenWriter, crossReads>>
    /\ UNCHANGED nonTwoVars

\* event_details = parse_event_details(initial_extraction.description)
TwoParse(i) ==
    /\ inv[i].pc = "parse"
    /\ LET arg == ParseArgument(inv[i].stage1.parsed[1])
           req == ParseRequest(now, arg)
       IN \E resp \in StubAnswers(req, StubDetails) :
             /\ stub' = Remember(req, resp)
             /\ inv' = [inv EXCEPT ![i].now2 = <<now>>,
                                   ![i].parseArg = <<arg>>,
                                   ![i].stage2 = resp,
                                   ![i].pc = IF resp.error = "" THEN "load" ELSE "done",
                                   ![i].outcome = IF resp.error = "" THEN Pending
                                                  ELSE Raised(resp.error)]
    /\ UNCHANGED <<now, token_json, tokenWriter, crossReads>>
    /\ UNCHANGED nonTwoVars

\* authenticate: if os.path.exists('token.json'): creds = Credentials.
\* from_authorized_user_file(...), which raises ValueError on a file that
\* holds no complete JSON document
TwoLoadToken(i) ==
    /\ inv[i].pc = "load"
    /\ crossReads' = IF tokenWriter \in Invocations \ {i}
                        THEN crossReads \cup {<<i, tokenWriter>>}
                        ELSE crossReads
    /\ inv' = CASE token_json = "absent" ->
                     [inv EXCEPT ![i].tokenSeen = token_json, ![i].pc = "login"]
                [] token_json = "valid" ->
                     [inv EXCEPT ![i].tokenSeen = token_json, ![i].creds = "valid",
                                 ![i].pc = "build"]
                [] token_json = "expired" ->
                     [inv EXCEPT ![i].tokenSeen = token_json, ![i].creds = "expired",
                                 ![i].pc = "login"]
                [] OTHER ->
                     [inv EXCEPT ![i].tokenSeen = token_json, ![i].pc = "done",
                                 ![i].outcome = Raised("ValueError")]
    /\ UNCHANGED <<now, stub, token_json, tokenWriter>>
    /\ UNCHANGED nonTwoVars

\* creds.refresh(Request()) or flow.run_local_server(port=0)
TwoLogin(i) ==
    /\ inv[i].pc = "login"
    /\ \/ inv' = [inv EXCEPT ![i].creds = "valid", ![i].pc = "open"]
       \/ inv' = [inv EXCEPT ![i].pc = "done", ![i].outcome = Raised("AuthError")]
    /\ UNCHANGED <<now, stub, token_json, tokenWriter, crossReads>>
    /\ UNCHANGED nonTwoVars

\* with open('token.json', 'w') as token: the file is created or emptied
TwoOpenToken(i) ==
    /\ inv[i].pc = "open"
    /\ token_json' = "truncated"
    /\ tokenWriter' = i
    /\ inv' = [inv EXCEPT ![i].pc = "write"]
    /\ UNCHANGED <<now, stub, crossReads>>
    /\ UNCHANGED nonTwoVars

\* token.write(creds.to_json()), and the file is closed
TwoWriteToken(i) ==
    /\ inv[i].pc = "write"
    /\ token_json' = "valid"
    /\ tokenWriter' = i
    /\ inv' = [inv EXCEPT ![i].pc = "build"]
    /\ UNCHANGED <<now, stub, crossReads>>
    /\ UNCHANGED nonTwoVars

\* service = build(...), then the Act stage and the confirmation, whose
\* results are not constrained here
TwoAct(i) ==
    /\ inv[i].pc = "build"
    /\ \E o \in {ReturnStr(TechnicalProblems), Raised("TransportError")}
                \cup {ReturnConfirmation(c) :
                         c \in {x \in EventConfirmation :
                                  /\ x.confirmation_message = "All set! Susie"
                                  /\ x.calendar_link # ""}} :
          inv' = [inv EXCEPT ![i].pc = "done", ![i].outcome = o]
    /\ UNCHANGED <<now, stub, token_json, tokenWriter, crossReads>>
    /\ UNCHANGED nonTwoVars

NextTwo ==
    \/ Tick
    \/ \E i \in Invocations : TwoExtract(i)
    \/ \E i \in Invocations : TwoGate(i)
    \/ \E i \in Invocations : TwoParse(i)
    \/ \E i \in Invocations : TwoLoadToken(i)
    \/ \E i \in Invocations : TwoLogin(i)
    \/ \E i \in Invocations : TwoOpenToken(i)
    \/ \E i \in Invocations : TwoWriteToken(i)
    \/ \E i \in Invocations : TwoAct(i)

SpecTwo == InitTwo /\ [][NextTwo]_vars


(* ---------------- calendar_tools.create_event ---------------- *)

\* the year the inputs lie in, and the years a computed time can lie in
EpochYear == 2025

Years == EpochYear..(EpochYear + 2)

\* the ways a start_datetime text can be written
Shapes == {"%Y-%m-%d %H:%M", "%Y-%m-%dT%H:%M", "%d/%m/%Y %H:%M"}

\* a relative phrase such as "next Tuesday at 3pm"
RelativePhrase ==
    [shape |-> "words", year |-> 0, month |-> 0, day |-> 0, hour |-> 0, minute |-> 0]

StartTexts ==
    [shape : Shapes, year : {EpochYear}, month : {2, 3, 12, 13},
     day : {28, 30, 31}, hour : {11, 23, 24}, minute : {0, 30}]
    \cup {RelativePhrase}

CreateDurations == Durations \cup {90, 1440}

IsLeap(y) == (y % 4 = 0 /\ y % 100 # 0) \/ y % 400 = 0

DaysInMonth(y, mo) ==
    CASE mo = 2 -> IF IsLeap(y) THEN 29 ELSE 28
      [] mo \in {4, 6, 9, 11} -> 30
      [] OTHER -> 31

\* datetime.strptime(text, "%Y-%m-%d %H:%M") succeeds: the text is written
\* in that format and names a minute that exists
strptime_ok(t) ==
    /\ t.shape = "%Y-%m-%d %H:%M"
    /\ t.year \in 1..9999
    /\ t.month \in 1..12
    /\ t.day \in 1..DaysInMonth(t.year, t.month)
    /\ t.hour \in 0..23
    /\ t.minute \in 0..59

\* the naive datetime strptime returns
strptime(t) ==
    [year |-> t.year, month |-> t.month, day |-> t.day, hour |-> t.hour,
     minute |-> t.minute, tzinfo |-> "None"]

\* .replace(tzinfo=timezone.utc)
replace_tzinfo(dt, tz) == [dt EXCEPT !.tzinfo = tz]

RECURSIVE DaysBeforeMonth(_, _)
DaysBeforeMonth(y, mo) ==
    IF mo = 1 THEN 0 ELSE DaysBeforeMonth(y, mo - 1) + DaysInMonth(y, mo - 1)

RECURSIVE DaysBeforeYear(_)
DaysBeforeYear(y) ==
    IF y = EpochYear THEN 0
    ELSE DaysBeforeYear(y - 1) + (IF IsLeap(y - 1) THEN 366 ELSE 365)

\* minutes from the start of EpochYear to a datetime
MinutesOf(dt) ==
    ((DaysBeforeYear(dt.year) + DaysBeforeMonth(dt.year, dt.month) + dt.day - 1) * 24
        + dt.hour) * 60 + dt.minute

\* the datetime that many minutes after the start of EpochYear
DatetimeOf(mins, tz) ==
    LET days == mins \div 1440
        y == CHOOSE k \in Years : DaysBeforeYear(k) <= days /\ days < DaysBeforeYear(k + 1)
        doy == days - DaysBeforeYear(y)
        mo == CHOOSE k \in 1..12 :
                 /\ DaysBeforeMonth(y, k) <= doy
                 /\ doy < DaysBeforeMonth(y, k) + DaysInMonth(y, k)
    IN [year |-> y, month |-> mo, day |-> doy - DaysBeforeMonth(y, mo) + 1,
        hour |-> (mins % 1440) \div 60, minute |-> mins % 60, tzinfo |-> tz]

\* start_time + timedelta(minutes=duration_minutes)
plus_timedelta_Hours(dt, n) == DatetimeOf(MinutesOf(dt) + 60 * n, dt.tzinfo)

plus_timedelta(dt, n) == DatetimeOf(MinutesOf(dt) + n, dt.tzinfo)

\* dt.isoformat(): the text YYYY-MM-DDTHH:MM:SS and the UTC offset
isoformat(dt) ==
    [shape |-> "%Y-%m-%dT%H:%M:%S%z", year |-> dt.year, month |-> dt.month,
     day |-> dt.day, hour |-> dt.hour, minute |-> dt.minute, second |-> 0,
     offset |-> IF dt.tzinfo = "UTC" THEN "+00:00" ELSE ""]

\* the start and end entries of the event dict
EventTimes(st, en) ==
    [start |-> isoformat(st), startZone |-> "UTC",
     end |-> isoformat(en), endZone |-> "UTC"]

InitCreate ==
    /\ PipeIdle
    /\ GuiIdle
    /\ AppIdle
    /\ ToolsIdle
    /\ MgrIdle
    /\ LlmIdle
    /\ TwoIdle
    /\ cePc = "parse"
    /\ start_datetime \in StartTexts
    /\ duration_minutes \in CreateDurations
    /\ start_time = NoTime
    /\ end_time = NoTime
    /\ ceBody = NoBody
    /\ ceRequests = <<>>
    /\ ceRet = NoReturn

\* start_time = datetime.strptime(...).replace(tzinfo=timezone.utc);
\* end_time = start_time + timedelta(minutes=duration_minutes)
CreateParse ==
    /\ cePc = "parse"
    /\ IF strptime_ok(start_datetime)
          THEN LET st == replace_tzinfo(strptime(start_datetime), "UTC")
               IN /\ start_time' = <<st>>
                  /\ end_time' = <<plus_timedelta(st, duration_minutes)>>
                  /\ cePc' = "build"
                  /\ UNCHANGED ceRet
          ELSE /\ ceRet' = Raises("ValueError")
               /\ cePc' = "done"
               /\ UNCHANGED <<start_time, end_time>>
    /\ UNCHANGED <<start_datetime, duration_minutes, ceBody, ceRequests>>
    /\ UNCHANGED nonCeVars

\* event = {'summary': ..., 'start': {...}, 'end': {...}, ...}
CreateBuild ==
    /\ cePc = "build"
    /\ ceBody' = EventTimes(start_time[1], end_time[1])
    /\ cePc' = "insert"
    /\ UNCHANGED <<start_datetime, duration_minutes, start_time, end_time,
                   ceRequests, ceRet>>
    /\ UNCHANGED nonCeVars

\* try: event = service.events().insert(...).execute() except HttpError;
\* then the check for 'id' and 'htmlLink'
CreateInsert ==
    /\ cePc = "insert"
    /\ ceRequests' = Append(ceRequests, ceBody)
    /\ \E r \in InsertResults :
          ceRet' = CASE r = "created" -> Returns("True")
                     [] r = "HttpError" -> Returns("False")
                     [] OTHER -> Raises("TransportError")
    /\ cePc' = "done"
    /\ UNCHANGED <<start_datetime, duration_minutes, start_time, end_time, ceBody>>
    /\ UNCHANGED nonCeVars

NextCreate ==
    \/ CreateParse
    \/ CreateBuild
    \/ CreateInsert

SpecCreate == InitCreate /\ [][NextCreate]_vars


(* ---------------- UserInterface_HS/app.py ---------------- *)

\* values of LLM_DEFAULT_MODEL the app can be started with
AppDefaultSettings == DefaultModelSettings \cup {"mistral:latest"}

\* request.model of an /api/ask request
RequestModels == {NoneValue, "", "phi3:latest", "gpt-4o", "mistral:latest"}

\* model = request.model if request.model in LLM_MODELS else LLM_DEFAULT_MODEL
AllowedModel_PassThrough(requested) == Or(requested, LLM_DEFAULT_MODEL)

AllowedModel(requested) ==
    IF requested \in LLM_MODELS THEN requested ELSE LLM_DEFAULT_MODEL

\* the JSON body ask_model answers with
ResponseBody(o) ==
    IF o.kind = "return" THEN [response |-> o.value, error |-> ""]
                         ELSE [response |-> "", error |-> o.value]

InitApp ==
    /\ PipeIdle
    /\ GuiIdle
    /\ ToolsIdle
    /\ MgrIdle
    /\ TwoIdle
    /\ CreateIdle
    /\ LLM_DEFAULT_MODEL \in AppDefaultSettings
    /\ g_client = NoneValue
    /\ g_default_model = NoneValue
    /\ configures = <<>>
    /\ asks = <<>>
    /\ appPc = "startup"
    /\ apiLog = <<>>

\* lifespan: configure() with its default arguments, then serve; when
\* configure() raises the app does not start
lifespan ==
    /\ appPc = "startup"
    /\ \E b \in BuildResults :
          /\ g_default_model' = Or(NoneValue, LLM_DEFAULT_MODEL)
          /\ g_client' = IF b = "LocalLLM" THEN b ELSE g_client
          /\ configures' = Append(configures,
                 [default_model |-> NoneValue, completed |-> (b = "LocalLLM")])
          /\ appPc' = IF b = "LocalLLM" THEN "serving" ELSE "failed"
    /\ UNCHANGED <<LLM_DEFAULT_MODEL, asks, apiLog>>
    /\ UNCHANGED nonServerVars

\* POST /api/ask: pick the model, call ask(), wrap its value or its
\* exception into the JSON answer
ask_model ==
    /\ appPc = "serving"
    /\ Len(apiLog) < MaxAsks
    /\ \E pr \in AskPrompts, rm \in RequestModels, o \in ChatOutcomes :
          LET model == AllowedModel(rm)
          IN /\ asks' = Append(asks,
                    [prompt |-> pr, model |-> model, nconf |-> Len(configures),
                     requests |-> <<[model |-> Chosen(model, g_default_model),
                                     messages |-> <<Message("user", pr)>>]>>,
                     ret |-> o])
             /\ apiLog' = Append(apiLog,
                    [prompt |-> pr, requested |-> rm, model |-> model,
                     body |-> ResponseBody(o)])
    /\ UNCHANGED <<LLM_DEFAULT_MODEL, g_client, g_default_model, configures, appPc>>
    /\ UNCHANGED nonServerVars

NextApp ==
    \/ lifespan
    \/ ask_model

SpecApp == InitApp /\ [][NextApp]_vars


(* ---------------- the GUIs' on_send callbacks ---------------- *)

\* most presses of Send in one session
MaxSends == 2

\* UserInterface/ai_chat_gui.py, UserInterface_HS/gui/aiGuiUbuntu.py,
\* UserInterface_HS/utils/io_helpers.py, UserInterface_LS/aiGuiUbuntu.py,
\* HS_UserInterface/aiGuiUbuntu.py
GuiVariants == {"chat", "hs_gui", "io_helpers", "ls", "hs_old"}

\* what the entry field can hold
EntryTexts == {"", "   ", "hello", "  hello "}

\* str.strip()
strip_Verbatim(t) == t

strip(t) == CASE t = "   " -> ""
              [] t = "  hello " -> "hello"
              [] OTHER -> t

\* the icon files found at start-up: none of them or all of them
IconSets == {{}, {"mainIcon", "clockicon", "errorIcon", "llmicon", "noActionicon"}}

\* what the AI call of on_send can do
AiOutcomes == {Returns("An answer."), Raises("ConnectError")}

\* the text on_send inserts before the AI call
Placeholder(v, ic, p) ==
    CASE v = "hs_gui" ->
            (IF "mainIcon" \in ic THEN <<"mainIcon", " ">> ELSE <<>>)
            \o <<"Prompt:", p, "Thinking">>
            \o (IF "clockicon" \in ic THEN <<"clockicon", "Thinking">> ELSE <<"Thinking">>)
      [] v = "hs_old" ->
            (IF "llmicon" \in ic THEN <<"llmicon", " ">> ELSE <<>>)
            \o <<"Prompt:", p>>
            \o (IF "clockicon" \in ic THEN <<"clockicon", "Thinking">> ELSE <<"Thinking">>)
      [] OTHER -> <<"Prompt:", p, "Thinking">>

\* the state the output area is left in once the placeholder is inserted:
\* io_helpers.on_send does not set it back to disabled
PlaceholderState(v) == IF v = "io_helpers" THEN "normal" ELSE "disabled"

\* the statement between the placeholder and the AI call:
\* llm_client.confgure(...) in UserInterface_HS/gui/aiGuiUbuntu.py, a name the
\* module does not have, and configure(...) in io_helpers.py, a name that is
\* not imported there
ReconfigureRaises(v) ==
    CASE v = "hs_gui" -> <<"AttributeError">>
      [] v = "io_helpers" -> <<"NameError">>
      [] OTHER -> <<>>

\* the icon a variant puts in front of a failed answer
FailureIcon(v) == IF v = "hs_gui" THEN "errorIcon" ELSE "noActionicon"

\* the text on_send inserts after the AI call
Shown(v, ic, o) ==
    CASE v \in {"chat", "ls"} ->
            IF o.kind = "return" THEN <<o.value>> ELSE <<"Error: ", o.value>>
      [] v = "io_helpers" ->
            IF o.kind = "return" THEN <<o.value>> ELSE <<"">>
      [] OTHER ->
            IF o.kind = "return" THEN <<o.value>>
            ELSE IF FailureIcon(v) \in ic THEN <<FailureIcon(v), " ", "">> ELSE <<"">>

InitGui ==
    /\ PipeIdle
    /\ ToolsIdle
    /\ MgrIdle
    /\ LlmIdle
    /\ TwoIdle
    /\ CreateIdle
    /\ AppIdle
    /\ gui \in GuiVariants
    /\ guiPc = "idle"
    /\ entry = ""
    /\ icons \in IconSets
    /\ output = EmptyOutput
    /\ aiCalls = 0
    /\ response = NoReturn
    /\ lastSend = NoSend
    /\ sendRet = ""
    /\ sends = 0

\* the user edits the entry field
TypePrompt ==
    /\ guiPc = "idle"
    /\ \E t \in EntryTexts : entry' = t
    /\ UNCHANGED <<gui, guiPc, icons, output, aiCalls, response, lastSend,
                   sendRet, sends>>
    /\ UNCHANGED nonGuiVars

\* on_send up to the AI call: read and strip the prompt, return when it is
\* empty, otherwise replace the output by the placeholder
on_send ==
    /\ guiPc = "idle"
    /\ sends < MaxSends
    /\ sends' = sends + 1
    /\ lastSend' = [text |-> entry, before |-> output, callsBefore |-> aiCalls]
    /\ LET p == strip(entry)
       IN IF p = ""
             THEN /\ sendRet' = "returned"
                  /\ UNCHANGED <<guiPc, output>>
             ELSE /\ output' = [state |-> PlaceholderState(gui),
                                content |-> Placeholder(gui, icons, p)]
                  /\ guiPc' = IF ReconfigureRaises(gui) # <<>> THEN "reconfigure"
                                                              ELSE "call"
                  /\ sendRet' = "running"
    /\ UNCHANGED <<gui, entry, icons, aiCalls, response>>
    /\ UNCHANGED nonGuiVars

\* the reconfigure statement of the two UserInterface_HS variants raises,
\* outside any try, and on_send ends there
on_send_reconfigure ==
    /\ guiPc = "reconfigure"
    /\ sendRet' = ReconfigureRaises(gui)[1]
    /\ guiPc' = "idle"
    /\ UNCHANGED <<gui, entry, icons, output, aiCalls, response, lastSend, sends>>
    /\ UNCHANGED nonGuiVars

\* try: the AI call; except Exception
on_send_call ==
    /\ guiPc = "call"
    /\ \E o \in AiOutcomes : response' = o
    /\ aiCalls' = aiCalls + 1
    /\ guiPc' = "display"
    /\ UNCHANGED <<gui, entry, icons, output, lastSend, sendRet, sends>>
    /\ UNCHANGED nonGuiVars

\* the output is replaced by the answer and set read-only
on_send_display ==
    /\ guiPc = "display"
    /\ output' = [state |-> "disabled", content |-> Shown(gui, icons, response)]
    /\ sendRet' = "returned"
    /\ guiPc' = "idle"
    /\ UNCHANGED <<gui, entry, icons, aiCalls, response, lastSend, sends>>
    /\ UNCHANGED nonGuiVars

NextGui ==
    \/ TypePrompt
    \/ on_send
    \/ on_send_reconfigure
    \/ on_send_call
    \/ on_send_display

SpecGui == InitGui /\ [][NextGui]_vars

Next ==
    \/ extract_event_info
    \/ GateCheck
    \/ parse_event_details
    \/ authenticate_and_connect_to_GoogleCalendarAPI
    \/ IfService
    \/ create_event_build
    \/ create_event_insert
    \/ create_event_verify
    \/ IfMeetingCreated
    \/ generate_confirmation
    \/ ReturnConfirmed

Spec == Init /\ [][Next]_vars

\* the whole script: listen, call, print
NextMain ==
    \/ live_transcription
    \/ MainCall
    \/ MainPrint
    \/ extract_event_info
    \/ GateCheck
    \/ parse_event_details
    \/ authenticate_and_connect_to_GoogleCalendarAPI
    \/ IfService
    \/ create_event_build
    \/ create_event_insert
    \/ create_event_verify
    \/ IfMeetingCreated
    \/ generate_confirmation
    \/ ReturnConfirmed

SpecMain == InitMain /\ [][NextMain]_vars

\* a listen attempt that ends live_transcription
ListenReturns == live_transcription /\ mainPc' # "listen"

\* the script when listening does not time out forever: some attempt ends
\* with a transcript or with an error other than WaitTimeoutError
SpecListen == InitMain /\ [][NextMain]_vars /\ WF_vars(ListenReturns)

TypeOK ==
    /\ variant \in Variants
    /\ pc \in {"idle", "extract", "gate", "parse", "connect", "if_service", "create",
               "insert", "verify", "if_created", "confirm", "return", "done"}
    /\ outcome.kind \in {"pending", "None", "EventConfirmation", "str", "raised"}
    /\ (pc = "done") = (outcome.kind # "pending")
    /\ insertResult \in InsertResults \cup {""}

(* ---------------- properties ---------------- *)

\* Stage 1 has answered
Extracted == initial_extraction # <<>>

\* the Stage 1 answer meets the documented gate: an event, confidence >= 0.7
MeetsGate == /\ Extracted
             /\ initial_extraction[1].is_calendar_event
             /\ initial_extraction[1].confidence_score >= GateThreshold

\* the invocation has ended
Ended == pc = "done"

\* the record create_event must receive for Stage 2's answer d
FullArguments(d) ==
    [title |-> d.name, start_datetime |-> d.date,
     duration_minutes |-> d.duration_minutes,
     attendees_emails |-> d.participants]

\* C1: whenever Stage 1 answered is_calendar_event = false or a confidence
\* below 0.7, the invocation has, once past the gate check, ended with None
\* and parse_event_details, the connection, create_event, the insert request
\* and generate_confirmation were each called zero times.
C1_GateRejects ==
    (Extracted /\ ~MeetsGate /\ pc # "gate") =>
        /\ Ended
        /\ outcome = ReturnNone
        /\ calls.parse_event_details = 0
        /\ calls.authenticate = 0
        /\ calls.create_event = 0
        /\ calls.insert = 0
        /\ calls.generate_confirmation = 0

\* C1 witness: an answer that is not an event although its confidence is
\* high has been rejected
C1_Witness ==
    /\ Ended
    /\ Extracted
    /\ ~initial_extraction[1].is_calendar_event
    /\ initial_extraction[1].confidence_score >= GateThreshold
    /\ outcome = ReturnNone

\* C2 as stated, read in its most favourable case (the full workflow, Stage 2
\* returned a record and nothing raised): an invocation that passed the gate
\* has called parse_event_details exactly once with the description and
\* create_event exactly once with Stage 2's four fields.
C2_Original ==
    (Ended /\ MeetsGate /\ variant = "full" /\ event_details # <<>>
           /\ raisedBy = "") =>
        /\ parseArgs = <<initial_extraction[1].description>>
        /\ createArgs = <<FullArguments(event_details[1])>>

\* C2 (amended): once past the gate, parse_event_details is called exactly
\* once, with Stage 1's description; create_event is called at most once and
\* always with Stage 2's four fields unchanged; by the end it was called
\* exactly once if and only if this is the full workflow, Stage 2 returned a
\* record and the connection returned a service object.
C2_StageArguments ==
    MeetsGate =>
        /\ (pc \notin {"gate", "parse"} =>
               parseArgs = <<initial_extraction[1].description>>)
        /\ Len(parseArgs) <= 1
        /\ Len(createArgs) <= 1
        /\ (createArgs # <<>> =>
               /\ event_details # <<>>
               /\ createArgs = <<FullArguments(event_details[1])>>)
        /\ (Ended =>
               ((Len(createArgs) = 1) <=>
                   (variant = "full" /\ event_details # <<>>
                                     /\ service = "service")))

\* C2 witness: create_event has been called for an answer with two
\* participants
C2_Witness ==
    /\ MeetsGate
    /\ Len(createArgs) = 1
    /\ Len(event_details[1].participants) = 2
    /\ Ended

\* C3: with is_calendar_event = true, a confidence of exactly 0.70 passes the
\* gate (Stage 2 is entered), and every confidence strictly below 0.70 ends
\* the invocation with None without Stage 2.
C3_GateInclusive ==
    (Extracted /\ initial_extraction[1].is_calendar_event /\ pc # "gate") =>
        /\ (initial_extraction[1].confidence_score = GateThreshold =>
               (pc = "parse" \/ calls.parse_event_details = 1))
        /\ (initial_extraction[1].confidence_score < GateThreshold =>
               /\ Ended
               /\ outcome = ReturnNone
               /\ calls.parse_event_details = 0)

\* C3 witness: Stage 2 has run for a confidence of exactly 0.70
C3_Witness ==
    /\ Extracted
    /\ initial_extraction[1].is_calendar_event
    /\ initial_extraction[1].confidence_score = GateThreshold
    /\ calls.parse_event_details = 1
    /\ event_details # <<>>

\* C4: when create_event returned False, generate_confirmation is never
\* called and the invocation ends by returning the failure message.
C4_ActionFailed ==
    (meeting_created = <<FALSE>>) =>
        /\ calls.generate_confirmation = 0
        /\ pc \in {"if_created", "done"}
        /\ (Ended => outcome = ReturnStr(TechnicalProblems))

\* C4 witness: an invocation has ended after create_event returned False
C4_Witness ==
    /\ meeting_created = <<FALSE>>
    /\ Ended
    /\ outcome.kind = "str"

\* C5 as stated: generate_confirmation is only ever called after create_event
\* ran in the same invocation and returned True.
C5_Original ==
    (calls.generate_confirmation > 0 \/ outcome.kind = "EventConfirmation") =>
        /\ calls.create_event = 1
        /\ meeting_created = <<TRUE>>

\* C5 (amended): in the full workflow generate_confirmation is only called,
\* and a confirmation only returned, after create_event ran once, its insert
\* request created the event and it returned True; the basic script has no
\* Act stage at all.
C5_ConfirmAfterAct ==
    /\ (variant = "full" /\ (calls.generate_confirmation > 0
                             \/ outcome.kind = "EventConfirmation")) =>
          /\ calls.create_event = 1
          /\ calls.insert = 1
          /\ meeting_created = <<TRUE>>
          /\ Len(calendar) = 1
    /\ (variant = "basic" =>
          /\ calls.authenticate = 0
          /\ calls.create_event = 0
          /\ calls.insert = 0)

\* C5 witness: the full workflow has returned a confirmation
C5_Witness ==
    /\ variant = "full"
    /\ outcome.kind = "EventConfirmation"
    /\ meeting_created = <<TRUE>>

\* C6: within one invocation the insert request is dispatched at most once,
\* whether it creates the event, is rejected or raises.
C6_SingleAttempt ==
    /\ calls.insert <= 1
    /\ Len(insertBodies) <= 1
    /\ Len(calendar) <= 1
    /\ calls.create_event <= 1

\* C6 witness: an invocation has ended after the backend rejected its one
\* insert request
C6_Witness ==
    /\ Ended
    /\ insertResult = "HttpError"
    /\ calls.insert = 1

\* C7 as stated: after a timed-out insert request the invocation ends with an
\* outcome of its own that it hands to its caller, other than the failure
\* message.
C7_Original ==
    (insertResult = "timeout" /\ Ended) =>
        /\ outcome.kind # "raised"
        /\ outcome # ReturnStr(TechnicalProblems)

\* C7 (amended): a timed-out insert request leaves create_event and
\* process_calendar_request as an uncaught exception; nothing is returned,
\* create_event yields no value, Stage 3 is not called, and this differs from
\* the failure message returned after a clean rejection.
C7_TimeoutPropagates ==
    (insertResult = "timeout") =>
        /\ Ended
        /\ outcome = Raised("TransportError")
        /\ raisedBy = "insert"
        /\ meeting_created = <<>>
        /\ calls.generate_confirmation = 0
        /\ outcome # ReturnStr(TechnicalProblems)

\* C7 witness: the request timed out although the backend created the event
C7_Witness ==
    /\ insertResult = "timeout"
    /\ Len(calendar) = 1
    /\ Ended

\* the three LLM stages
Stages == {"extract_event_info", "parse_event_details", "generate_confirmation"}

\* C8 as stated: an error raised by one of the three stages does not leave
\* process_calendar_request as an exception.
C8_Original ==
    (raisedBy \in Stages /\ Ended) => outcome.kind # "raised"

\* C8 (amended): an error raised by one of the three stages is caught
\* nowhere: it ends the invocation at once, leaves process_calendar_request as
\* that exception, and no later stage is called.
C8_StageErrorPropagates ==
    (raisedBy \in Stages) =>
        /\ Ended
        /\ outcome.kind = "raised"
        /\ outcome.exc \in StageErrors
        /\ (raisedBy = "extract_event_info" =>
               calls.parse_event_details = 0 /\ calls.generate_confirmation = 0)
        /\ (raisedBy \in {"extract_event_info", "parse_event_details"} =>
               /\ calls.authenticate = 0
               /\ calls.create_event = 0
               /\ calls.generate_confirmation = 0)

\* C8 witness: Stage 2 has raised a validation error
C8_Witness ==
    /\ raisedBy = "parse_event_details"
    /\ outcome = Raised("ValidationError")
    /\ Ended

\* C9: within one invocation extract_event_info, parse_event_details and
\* generate_confirmation are each called at most once, also when the call
\* fails.
C9_NoRetry ==
    /\ calls.extract_event_info <= 1
    /\ calls.parse_event_details <= 1
    /\ calls.generate_confirmation <= 1
    /\ Len(parseArgs) <= 1
    /\ Len(confirmArgs) <= 1

\* C9 witness: Stage 3 has failed after one call
C9_Witness ==
    /\ raisedBy = "generate_confirmation"
    /\ calls.generate_confirmation = 1
    /\ Ended

\* C10: a rejection of the insert request by the backend (HttpError) never
\* leaves create_event as an exception: create_event returns False and
\* process_calendar_request branches on that value.
C10_RejectionReturnsFalse ==
    (insertResult = "HttpError") =>
        /\ raisedBy = ""
        /\ outcome.kind # "raised"
        /\ pc \in {"verify", "if_created", "done"}
        /\ (pc # "verify" => meeting_created = <<FALSE>>)
        /\ Len(calendar) = 0

\* C10 witness: process_calendar_request is about to branch on the False
\* returned after a rejection
C10_Witness ==
    /\ insertResult = "HttpError"
    /\ pc = "if_created"
    /\ meeting_created = <<FALSE>>

\* the script has finished (or died) after the call
Exited == mainPc = "exit"

\* the way an invocation went wrong, read off the steps it took
FailureKind ==
    CASE raisedBy \in Stages -> "provider"
      [] insertResult = "timeout" -> "indeterminate"
      [] service = "None" -> "connect"
      [] meeting_created = <<FALSE>> -> "create"
      [] Extracted /\ GateFails(initial_extraction[1]) -> "gate"
      [] OTHER -> "other"

\* what the caller sees of an invocation
Observed == <<outcome, printed>>

\* what the caller sees when the gate rejected the text
GateObserved == <<ReturnNone, <<NotAnEventText>>>>

\* what the caller sees when create_event returned False
CreateObserved == <<ReturnStr(TechnicalProblems), <<"Traceback", "AttributeError">>>>

\* C11: each kind of unsuccessful invocation has a result of its own: what
\* the caller sees after a gate rejection is seen for no other kind, what it
\* sees after a failed event creation is seen for no other kind (in particular
\* not after a failed connection), a stage error is seen only for provider
\* trouble and a transport error only for the indeterminate kind.
C11_DistinctResults ==
    Exited =>
        /\ (Observed = GateObserved => FailureKind = "gate")
        /\ (Observed = CreateObserved => FailureKind = "create")
        /\ (outcome.exc \in StageErrors => FailureKind = "provider")
        /\ (outcome.exc = "TransportError" => FailureKind = "indeterminate")

\* a Stage 2 answer the Act stage can use: positive duration, absolute time
UsableDetails(a) == a.duration_minutes > 0 /\ StrptimeOk(a.start_datetime)

\* C12: a Stage 2 answer with a non-positive duration or a date that is not
\* a timestamp never reaches the Act stage: create_event is not called with
\* such a record and no insert request is built from it.
C12_InvalidDetailsRejected ==
    /\ \A i \in 1..Len(createArgs) : UsableDetails(createArgs[i])
    /\ \A i \in 1..Len(insertBodies) : insertBodies[i].end > insertBodies[i].start

\* C13: a Stage 1 answer whose confidence lies outside [0.0, 1.0] never
\* passes the gate: once past the gate check the invocation has ended with
\* None and Stage 2 was not called.
C13_ConfidenceInRange ==
    (Extracted /\ pc # "gate"
       /\ (initial_extraction[1].confidence_score < 0
           \/ initial_extraction[1].confidence_score > 1000)) =>
        /\ Ended
        /\ outcome = ReturnNone
        /\ calls.parse_event_details = 0

\* C14: when the gate passed, Stage 2 returned, the Act stage (if the script
\* has one) succeeded and Stage 3 returned a confirmation, the invocation
\* ends by returning exactly that confirmation: same message, same link; and
\* a confirmation is returned in no other case.
C14_ReturnsStage3Confirmation ==
    /\ (Ended /\ MeetsGate /\ event_details # <<>> /\ confirmation # <<>>
          /\ (variant = "full" => meeting_created = <<TRUE>>)) =>
          /\ outcome.kind = "EventConfirmation"
          /\ outcome.message = confirmation[1].confirmation_message
          /\ outcome.link = confirmation[1].calendar_link
          /\ outcome.exc = ""
    /\ (outcome.kind = "EventConfirmation" =>
          /\ confirmation # <<>>
          /\ outcome.message = confirmation[1].confirmation_message
          /\ outcome.link = confirmation[1].calendar_link)

\* C14 witness: the full workflow has returned a confirmation with a link
C14_Witness ==
    /\ Ended
    /\ variant = "full"
    /\ meeting_created = <<TRUE>>
    /\ confirmation # <<>>
    /\ outcome.kind = "EventConfirmation"
    /\ outcome.link # ""

\* C18: process_calendar_request is never called without a text: when
\* live_transcription returned None the script does not go on to Stage 1.
C18_NoCallWithoutInput ==
    (mainPc # "listen" /\ user_input = NoneValue) =>
        calls.extract_event_info = 0

\* the messages of role tool in a list that answer the tool call with this id
ToolAnswers(msgs, id) ==
    {i \in 1..Len(msgs) : msgs[i].role = "tool" /\ msgs[i].tool_call_id = id}

\* C17: when the second completion request is sent, every tool call of the
\* first completion has been executed exactly once by call_function, in the
\* order requested and with its parsed arguments, and the messages sent hold
\* exactly one tool message with that call's id, whose content is the JSON
\* text of the value call_function returned for it.
C17_ToolCallsAnswered ==
    (Len(sent) = 2) =>
        /\ completion.has_tool_calls
        /\ Len(executed) = Len(completion.tool_calls)
        /\ \A k \in 1..Len(completion.tool_calls) :
              LET tc == completion.tool_calls[k]
              IN /\ executed[k].id = tc.id
                 /\ executed[k].name = tc.name
                 /\ executed[k].args = JsonLoads(tc.arguments)
                 /\ executed[k].outcome.kind = "return"
                 /\ Cardinality(ToolAnswers(sent[2], tc.id)) = 1
                 /\ \A i \in ToolAnswers(sent[2], tc.id) :
                       sent[2][i].content = JsonDumps(executed[k].outcome.value)
        /\ Cardinality({i \in 1..Len(sent[2]) : sent[2][i].role = "tool"})
              = Len(completion.tool_calls)

\* C17 witness: the final-answer request went out after two tool calls
C17_Witness ==
    /\ Len(sent) = 2
    /\ Len(completion.tool_calls) = 2
    /\ tpc = "end"

\* the error messages call_ai_function builds for the current call
MgrErrorMessages ==
    {InvalidMode(mode), MissingRun(module_path)}
    \cup {ErrorImporting(module_path, e) : e \in {"No module named 'ai_functions'"}}
    \cup {ExecutionError(o.value) : o \in {x \in RunOutcomes : x.kind = "raise"}}

\* the run(prompt) calls of the current call_ai_function
MgrRuns == {i \in 1..Len(mgrTrace) : mgrTrace[i].op = "run"}

\* C19: a call of call_ai_function ends by returning, never by raising; the
\* value is what the selected module's run(prompt) returned or one of the
\* error messages; when the mode is no key of AVAILABLE_MODES the value is
\* the Invalid mode message and nothing was imported or run.
C19_NeverRaises ==
    /\ \A k \in 1..Len(replies) : replies[k].kind = "return"
    /\ (mgrPc = "exit") =>
          /\ mgrRet.kind = "return"
          /\ \/ mgrRet \in MgrErrorMessages
             \/ \E i \in MgrRuns : /\ mgrTrace[i].outcome = mgrRet
                                   /\ mgrTrace[i].arg = prompt
                                   /\ module_path = AVAILABLE_MODES[mode]
          /\ (mode \notin DOMAIN AVAILABLE_MODES) =>
                mgrRet = InvalidMode(mode) /\ mgrTrace = <<>>

\* C19 witness: after a call with an unknown mode was answered, a call whose
\* run(prompt) raised is about to return
C19_Witness ==
    /\ mgrPc = "exit"
    /\ Len(replies) = 1
    /\ replies[1].value[1] = "Invalid mode: "
    /\ \E i \in MgrRuns : mgrTrace[i].outcome.kind = "raise"

\* some configure() call among the first n completed
ConfigureCompleted(n) == \E j \in 1..n : configures[j].completed

\* the default model set by the n-th configure() call
ConfiguredDefault(n) == Or(configures[n].default_model, LLM_DEFAULT_MODEL)

\* C20 as stated: ask() before any configure() completed raises
\* RuntimeError and sends nothing; afterwards it sends exactly one request,
\* with the given model, or with the default model of the most recent
\* configure() when model is None.
C20_Original ==
    \A k \in 1..Len(asks) :
        LET a == asks[k]
        IN IF ~ConfigureCompleted(a.nconf)
              THEN /\ a.ret = Raises("RuntimeError: llm_client is not configured")
                   /\ a.requests = <<>>
              ELSE /\ Len(a.requests) = 1
                   /\ a.requests[1].model =
                         IF a.model = NoneValue THEN ConfiguredDefault(a.nconf)
                                                ELSE a.model

\* C20 amended: ask() before any configure() completed raises RuntimeError
\* and sends nothing; afterwards it sends exactly one request, with the
\* given model when that is a non-empty string, and with the default model
\* set by the most recent configure() call (completed or not) when model is
\* None or the empty string.
C20_AskUsesChosenModel ==
    \A k \in 1..Len(asks) :
        LET a == asks[k]
        IN IF ~ConfigureCompleted(a.nconf)
              THEN /\ a.ret = Raises("RuntimeError: llm_client is not configured")
                   /\ a.requests = <<>>
              ELSE /\ Len(a.requests) = 1
                   /\ a.requests[1].messages = <<Message("user", a.prompt)>>
                   /\ a.requests[1].model =
                         IF a.model = NoneValue \/ a.model = ""
                            THEN ConfiguredDefault(a.nconf)
                            ELSE a.model

\* C20 witness: one ask was refused before configuration, and after a
\* completed configure() followed by a failed one an ask with an empty model
\* sent its request
C20_Witness ==
    /\ Len(asks) = 2
    /\ asks[1].requests = <<>>
    /\ asks[2].model = ""
    /\ Len(asks[2].requests) = 1
    /\ Len(configures) = 2
    /\ configures[1].completed
    /\ ~configures[2].completed
    /\ asks[2].nconf = 2

\* both invocations were given the same text
SameInput == inv[1].user_input = inv[2].user_input

\* both invocations have had their Stage 1 answer
BothExtracted == inv[1].now1 # <<>> /\ inv[2].now1 # <<>>

\* both invocations have had their Stage 2 answer
BothParsed == inv[1].now2 # <<>> /\ inv[2].now2 # <<>>

\* C15 as stated: with the same input text and a provider that is a
\* function of its request, the two invocations get the same
\* EventExtraction and the same EventDetails.
C15_Original ==
    /\ (SameInput /\ BothExtracted) => inv[1].stage1 = inv[2].stage1
    /\ (SameInput /\ BothParsed) => inv[1].stage2 = inv[2].stage2

\* C15 amended: with the same input text and a provider that is a function
\* of its request, two invocations whose Stage 1 calls read the same current
\* date get the same EventExtraction, and if their Stage 2 calls also read
\* the same current date they get the same EventDetails, whatever the Act
\* stage returns in each.
C15_SameDateSameRecords ==
    /\ (SameInput /\ BothExtracted /\ inv[1].now1[1].day = inv[2].now1[1].day)
          => inv[1].stage1 = inv[2].stage1
    /\ (SameInput /\ BothParsed /\ inv[1].now1[1].day = inv[2].now1[1].day
                                /\ inv[1].now2[1].day = inv[2].now2[1].day)
          => /\ inv[1].parseArg = inv[2].parseArg
             /\ inv[1].stage2 = inv[2].stage2

\* C15 witness: both invocations ran to the end on one day, at different
\* times of that day, got their EventDetails, and ended differently
C15_Witness ==
    /\ SameInput
    /\ BothParsed
    /\ inv[1].now1[1].day = inv[2].now1[1].day
    /\ inv[1].now2[1].day = inv[2].now2[1].day
    /\ inv[1].now1[1].slot # inv[2].now1[1].slot
    /\ inv[1].stage2.parsed # <<>>
    /\ inv[1].pc = "done" /\ inv[2].pc = "done"
    /\ inv[1].outcome.kind = "EventConfirmation"
    /\ inv[2].outcome.kind = "str"

\* C16: two concurrent invocations share no mutable state: no invocation
\* reads what the other wrote, the credential file included, and so none
\* ends in a way it could not end when running alone (with the ValueError
\* of a half-written credential file).
C16_NoSharedState ==
    /\ crossReads = {}
    /\ \A i \in Invocations : inv[i].outcome # Raised("ValueError")

\* C22: in both scripts a tool call whose name is not registered makes
\* call_function raise, and no tool message answers that call.
C22_UnknownToolRejected ==
    \A k \in 1..Len(executed) :
        (executed[k].name # RegisteredTool(script)) =>
            /\ executed[k].outcome.kind = "raise"
            /\ ToolAnswers(messages, executed[k].id) = {}

\* C23: whatever process_calendar_request returns is None or an
\* EventConfirmation, so the caller's truth test followed by
\* result.confirmation_message never fails on a returned value.
C23_ReturnsDeclaredType ==
    (Exited /\ outcome.kind # "raised") =>
        /\ outcome.kind \in {"None", "EventConfirmation"}
        /\ printed[1] # "Traceback"

\* C24: when create_event returned True the invocation ends by returning
\* an EventConfirmation to its caller, also when Stage 3 fails.
C24_NoOrphanedEvent ==
    (Ended /\ meeting_created = <<TRUE>>) => outcome.kind = "EventConfirmation"

\* the positions of the assistant messages in a list
AssistantPositions(msgs) == {i \in 1..Len(msgs) : msgs[i].role = "assistant"}

\* C25: once the loop over N >= 1 tool calls has ended, messages is the
\* system and user messages, then the assistant message once, then the N
\* tool messages in the order the calls were requested.
C25_MessagesShape ==
    (tpc \in {"second", "end"}) =>
        LET n == Len(completion.tool_calls)
        IN /\ Len(messages) = 3 + n
           /\ SubSeq(messages, 1, 2) = InitialMessages(script)
           /\ messages[3] = AssistantMessage(completion)
           /\ AssistantPositions(messages) = {3}
           /\ \A k \in 1..n : /\ messages[3 + k].role = "tool"
                              /\ messages[3 + k].tool_call_id = completion.tool_calls[k].id

\* C26: when the first completion is free text with no tool calls the loop
\* runs no tool, raises nothing and leaves messages unchanged, and the
\* final-answer request follows.
C26_NoToolCallsProceeds ==
    (tpc # "first" /\ tpc # "loop" /\ ~completion.has_tool_calls /\ Len(sent) >= 1
       /\ completion # NoCompletion) =>
        /\ tpc \in {"second", "end"}
        /\ texc = ""
        /\ executed = <<>>
        /\ messages = InitialMessages(script)
\* the fields of a text read as a datetime
FieldsOf(t) ==
    [year |-> t.year, month |-> t.month, day |-> t.day, hour |-> t.hour,
     minute |-> t.minute, tzinfo |-> "UTC"]

\* C27: create_event sends an insert request only when start_datetime
\* parses as a '%Y-%m-%d %H:%M' timestamp; otherwise it raises with no
\* request sent; and in every request sent the start is the given minute,
\* the end is the start plus duration_minutes minutes, and both are in UTC.
C27_DispatchOnlyParsed ==
    /\ (ceRequests # <<>>) => strptime_ok(start_datetime)
    /\ (cePc # "parse" /\ ~strptime_ok(start_datetime)) =>
          /\ cePc = "done"
          /\ ceRet = Raises("ValueError")
          /\ ceRequests = <<>>
    /\ \A k \in 1..Len(ceRequests) :
          LET r == ceRequests[k]
          IN /\ FieldsOf(r.start) = FieldsOf(start_datetime)
             /\ MinutesOf(FieldsOf(r.end)) = MinutesOf(FieldsOf(r.start)) + duration_minutes
             /\ r.start.offset = "+00:00" /\ r.end.offset = "+00:00"
             /\ r.startZone = "UTC" /\ r.endZone = "UTC"

\* C27 witness: a request went out for an event that starts on the last
\* evening of the year and ends in the next year
C27_Witness ==
    /\ cePc = "done"
    /\ Len(ceRequests) = 1
    /\ ceRequests[1].start.month = 12
    /\ ceRequests[1].end.year = EpochYear + 1
    /\ duration_minutes = 90

\* live_transcription has returned
Listened == mainPc # "listen"

\* C30: live_transcription stays in its loop after every WaitTimeoutError,
\* returns the transcript text at the first successful attempt and None at
\* the first other error; and when listening does not time out forever it
\* returns.
C30_ListenTerminates ==
    /\ [](/\ (heard # <<>> /\ heard[Len(heard)] = "WaitTimeoutError") =>
                ~Listened /\ user_input = NoneValue
          /\ (heard # <<>> /\ heard[Len(heard)] = "transcript") =>
                Listened /\ user_input \in Transcripts
          /\ (heard # <<>> /\ heard[Len(heard)] = "error") =>
                Listened /\ user_input = NoneValue
          /\ Listened => heard # <<>> /\ heard[Len(heard)] # "WaitTimeoutError"
          /\ \A k \in 1..(Len(heard) - 1) : heard[k] = "WaitTimeoutError")
    /\ <>Listened

\* C30 witness: a transcript was returned after listening had timed out
C30_Witness ==
    /\ heard = <<"WaitTimeoutError", "transcript">>
    /\ user_input \in Transcripts
    /\ mainPc = "call"
\* the models the app may use
Permitted == LLM_MODELS \cup {LLM_DEFAULT_MODEL}

\* C21: for every /api/ask request the model handed to ask() is a member
\* of LLM_MODELS or LLM_DEFAULT_MODEL; a requested model outside LLM_MODELS,
\* a missing one included, is replaced by LLM_DEFAULT_MODEL, and what the
\* provider is sent is the permitted model, not the requested one.
C21_ModelWhitelisted ==
    /\ Len(asks) = Len(apiLog)
    /\ \A k \in 1..Len(apiLog) :
          /\ apiLog[k].model \in Permitted
          /\ asks[k].model = apiLog[k].model
          /\ (apiLog[k].requested \notin LLM_MODELS) =>
                apiLog[k].model = LLM_DEFAULT_MODEL
          /\ Len(asks[k].requests) = 1
          /\ asks[k].requests[1].model \in Permitted
          /\ (apiLog[k].requested \notin Permitted) =>
                asks[k].requests[1].model # apiLog[k].requested

\* C21 witness: a request naming a model outside the list was answered
\* after a request naming a listed model
C21_Witness ==
    /\ Len(apiLog) = 2
    /\ apiLog[1].requested = "phi3:latest"
    /\ apiLog[2].requested = "gpt-4o"
    /\ asks[2].requests[1].model = "openchat-3.5-0106:latest"
    /\ apiLog[2].body.error = ""
\* a text of nothing but whitespace
Blank(t) == t \in {"", "   "}

\* the last on_send is over
SendOver == guiPc = "idle" /\ sends > 0

\* the items the output area shows
ShownItems == {output.content[i] : i \in 1..Len(output.content)}

\* C28: in every GUI variant on_send with a prompt that is empty after
\* stripping does nothing: no AI call is made and the content and the state
\* of the output area stay as they were.
C28_EmptyPromptNoOp ==
    (SendOver /\ Blank(lastSend.text)) =>
        /\ sendRet = "returned"
        /\ output = lastSend.before
        /\ aiCalls = lastSend.callsBefore

\* C28 witness: Send was pressed on a whitespace-only entry while the
\* output area showed the answer to an earlier prompt
C28_Witness ==
    /\ SendOver
    /\ sends = 2
    /\ lastSend.text = "   "
    /\ output.content = <<"An answer.">>

\* C29: in every GUI variant an on_send with a non-empty prompt returns
\* with the output area read-only and showing the AI response or an error
\* indication, and the Thinking placeholder is not what remains displayed.
C29_SendEndsWithAnswer ==
    (SendOver /\ ~Blank(lastSend.text)) =>
        /\ sendRet = "returned"
        /\ output.state = "disabled"
        /\ "Thinking" \notin ShownItems
        /\ \/ response.kind = "return" /\ output.content = <<response.value>>
           \/ /\ response.kind = "raise"
              /\ ShownItems \cap {"Error: ", "errorIcon", "noActionicon"} # {}
====
